---- MODULE Spec2Model ----
(***************************************************************************)
(* The on-disk landmark cache of cozymos/landmark1.                         *)
(*                                                                         *)
(* Two cache managers live in the repository:                              *)
(*   CacheManager         src/components/cache_manager.py                  *)
(*   OfflineCacheManager  src/cache_manager.py                             *)
(* Each owns a cache directory with a landmarks/ and an images/            *)
(* sub-directory.  The model holds one instance (impl) and its directory   *)
(* tree; the operations are translated from the class impl names.          *)
(***************************************************************************)
EXTENDS Integers, Sequences, FiniteSets, TLC

\* ------------------------------------------------------------------ bounds
MaxTime == 1       \* the clock runs 0..MaxTime (hours)
MaxAge == 0        \* max_age_hours arguments are 0..MaxAge
MaxSweepTime == 2  \* the clock of the sweep specification runs 0..MaxSweepTime
MaxSweepAge == 1   \* clear_old_cache is called with max_age_hours 0..MaxSweepAge
MaxLandmarkIds == 51  \* add_discovery is called with this many distinct ids
MaxWeatherMinutes == 40  \* the weather clock stops advancing from here on
MaxApiCalls == 52     \* update_api_stats is called at most this often
MaxOtherCalls == 1    \* of these calls, at most this many name another API

\* ------------------------------------------------------------- data values
Impls == {"CacheManager", "OfflineCacheManager"}

Queries == {"q1", "q2"}

URLs == {"http://example/a.jpg", "http://example/b.jpg"}

\* A string requests.get rejects before any network traffic (MissingSchema).
MalformedUrl == "not-a-url"

\* The falsy image_url of a landmark without a photo.
NoImage == ""

\* Landmark dictionaries as the adapters build them; 'coordinates' is a
\* Python tuple (py = "tuple") of (lat, lon).
FerryBuilding ==
    [title |-> "Ferry Building", summary |-> "Test summary for Ferry Building",
     url |-> "", image_url |-> "http://example/a.jpg", distance |-> 2,
     relevance |-> 8,
     coordinates |-> [py |-> "tuple", lat |-> 37, lon |-> -122]]

CityPark ==
    [title |-> "City Park", summary |-> "", url |-> "", image_url |-> NoImage,
     distance |-> 0, relevance |-> 10,
     coordinates |-> [py |-> "tuple", lat |-> 48, lon |-> 2]]

\* a record whose latitude is out of range (lat = 200)
Nowhere ==
    [title |-> "Nowhere", summary |-> "", url |-> "",
     image_url |-> NoImage, distance |-> 1, relevance |-> 5,
     coordinates |-> [py |-> "tuple", lat |-> 200, lon |-> 0]]

Landmarks == {FerryBuilding, CityPark, Nowhere}

\* The landmark lists handed to cache_landmarks: empty, one record, two
\* records with the photo first or last, with and without an out-of-range
\* record.
Batches ==
    { <<>>, <<FerryBuilding>>, <<CityPark, FerryBuilding>>,
      <<FerryBuilding, Nowhere>> }

\* What one HTTP GET plus the following file write can do.
\*   "200"              status 200 and the body is written
\*   "404"              any status other than 200
\*   "RequestException" timeout, connection error, malformed URL
\*   "OpenError"        status 200, open(filename, 'wb') raises
\*   "WriteError"       status 200, f.write raises after the file was created
HttpOutcomes == {"200", "404", "RequestException", "OpenError", "WriteError"}

\* What open(cache_path, 'w') plus json.dump can do.
\*   "ok"          the document is written
\*   "OpenError"   open raises, the file is untouched
\*   "WriteError"  open truncated the file, json.dump raises part-way
WriteOutcomes == {"ok", "OpenError", "WriteError"}

\* How an existing entry file can be damaged from outside the program.
CorruptKinds == {"unreadable", "truncated", "no_landmarks_key"}

\* validate_coords(lat, lon)
validate_coords(lat, lon) == -90 <= lat /\ lat <= 90 /\ -180 <= lon /\ lon <= 180

\* ------------------------------------------------------------------- paths
\* hashlib.md5(url).hexdigest(): one digest per URL, distinct URLs of the
\* model get distinct digests.
md5(image_url) ==
    CASE image_url = "http://example/a.jpg" -> "0cc1"
      [] image_url = "http://example/b.jpg" -> "92eb"
      [] OTHER -> "d41d"

ImagePath(image_url) == "images/" \o md5(image_url) \o ".jpg"

ImageFiles == { ImagePath(u) : u \in URLs \cup {MalformedUrl} }

LandmarkFiles == {"landmarks.json", "landmarks__1.json", "landmarks_1.json"}

Absent == [kind |-> "absent"]

\* ---------------------------------------------------------------- variables
VARIABLES
    impl,           \* which cache manager class this instance is
    now,            \* time.time(), in hours
    landmarks_dir,  \* file name -> file of <cache_dir>/landmarks
    images_dir,     \* file name -> state of the file in <cache_dir>/images
    images_mtime,   \* file name -> os.path.getmtime of that file (0 if absent)
    cache_stats,    \* st.session_state.cache_stats (OfflineCacheManager)
    op,             \* the call that ran last
    ret,            \* what the last call returned
    raised,         \* whether the last call raised to its caller
    net,            \* the HTTP GETs the last call issued, in order
    arg,            \* arguments of the last get_cached_landmarks / _cache_image
    shown,          \* st.success / st.warning / st.error of the last
                    \* clear_old_cache or get_landmarks call
    fetched,        \* the last get_landmarks call: its mode and zoom level,
                    \* whether it called the adapter and what the adapter did
    writers,        \* thread -> its cache_landmarks call in progress: where
                    \* it stands in writing the entry file
    coords,         \* the last parse_coordinates / validate_coords call
    places,         \* the last GooglePlacesHandler.get_landmarks call
    lastPut,        \* arguments and time of the last cache_landmarks that returned
    everPut,        \* queries for which a cache_landmarks call has completed
    input_intact,   \* whether the list handed to the last cache_landmarks
                    \* call holds the same dicts with the same items after it
    journey,        \* st.session_state of JourneyTracker and its last call
    weather,        \* st.session_state of WeatherHandler, its clock and last call
    api_state       \* st.session_state.api_stats and api_call_log, and the
                    \* update_api_stats calls made so far

vars == <<impl, now, landmarks_dir, images_dir, images_mtime, cache_stats,
          op, ret, raised, net, arg, shown, fetched, writers, lastPut,
          everPut, coords, places, input_intact, journey, weather,
          api_state>>

NoArg == [q |-> "", max_age |-> 0, url |-> ""]

\* the variables of the cache store and of the calls on it
storeVars ==
    <<impl, now, landmarks_dir, images_dir, images_mtime, cache_stats, op,
      ret, raised, net, arg, shown, fetched, writers, lastPut, everPut,
      input_intact>>

\* the variables kept in st.session_state by the trackers and panels
sessionVars == <<journey, weather, api_state>>

NoMessage == [kind |-> "none", count |-> 0]

NoFetch ==
    [called |-> FALSE, raises |-> FALSE, landmarks |-> <<>>,
     cache_called |-> FALSE, offline_mode |-> FALSE, zoom_level |-> 0]

\* Optional[...] results: None, or the value
None == [some |-> FALSE]

NoCoords ==
    [kind |-> "none", lat |-> 0, lon |-> 0, coord_str |-> <<>>,
     parsed |-> None, valid |-> FALSE]

NoPlaces ==
    [test_mode |-> FALSE, test_landmarks |-> <<>>, center_coords |-> <<0, 0>>,
     radius_km |-> 0, result |-> <<>>, raised |-> FALSE,
     client_called |-> FALSE, rate_limited |-> FALSE]

\* st.session_state as JourneyTracker.__init__ leaves a new session, with
\*   added     the ids add_discovery has been called with
\*   reported  achievement name -> number of calls that returned it in
\*             new_achievements
\*   result    what the last add_discovery call returned
NoJourney ==
    [discovered_landmarks |-> {}, achievements |-> {},
     last_discovery_time |-> None, added |-> {},
     reported |-> [n \in {} |-> 0], landmark_id |-> 0, result |-> None]

\* st.session_state as WeatherHandler.__init__ leaves a new session, with
\*   time  datetime.now(), in minutes
\*   lat, lon, ret, http  the last get_weather call: its arguments, what
\*         it returned and whether it called requests.get
NoWeather ==
    [time |-> 0, weather_cache |-> [k \in {} |-> None],
     weather_cache_time |-> [k \in {} |-> 0],
     called |-> FALSE, lat |-> 0, lon |-> 0, ret |-> None, http |-> FALSE]

\* st.session_state.api_stats and api_call_log as the first
\* update_api_stats call creates them, with
\*   calls  the entries of all update_api_stats calls made, in call order
NoApi ==
    [api_stats |-> [google_places_calls |-> 0, last_call_time |-> None,
                    last_call_status |-> "idle"],
     api_call_log |-> <<>>, calls |-> <<>>]

\* The threads that may run cache_landmarks at the same time (one per
\* browser session).
Writers == {"w1", "w2"}

NotWriting ==
    [pc |-> "idle", batch |-> <<>>, doc |-> <<>>, pos |-> 0, raced |-> FALSE]

NoPut == [q |-> "", landmarks |-> <<>>, time |-> -1]

\* -------------------------------------------------------------------- json
\* json.dump of a landmark: a tuple is written as an array, every other
\* field (strings, numbers) as itself.
JsonDumpLandmark(landmark) ==
    [landmark EXCEPT !.coordinates = [landmark.coordinates EXCEPT !.py = "list"]]

JsonDump(obj) ==
    [obj EXCEPT !.landmarks =
        [i \in 1..Len(obj.landmarks) |-> JsonDumpLandmark(obj.landmarks[i])]]

\* json.load gives back the document, arrays as Python lists.
JsonLoad(text) == text

\* ------------------------------------------------------------ _cache_image
\* open(filename, 'rb') and f.read(1) succeed
Readable(state) == state \in {"ok", "partial"}

\* Mutant: the existing-file check is skipped, every call downloads.
CacheImageBody_AlwaysDownload(images, image_url, outcome) ==
    LET filename == ImagePath(image_url)
        get == <<[url |-> image_url, outcome |-> outcome]>>
    IN  CASE outcome = "200" ->
                [exc |-> "", ret |-> filename,
                 images |-> [images EXCEPT ![filename] = "ok"], net |-> get]
          [] outcome \in {"404", "RequestException"} ->
                [exc |-> "", ret |-> "", images |-> images, net |-> get]
          [] outcome = "OpenError" ->
                [exc |-> "OSError", ret |-> "", images |-> images, net |-> get]
          [] outcome = "WriteError" ->
                [exc |-> "OSError", ret |-> "",
                 images |-> [images EXCEPT ![filename] = "partial"], net |-> get]

\* Mutant: an existing file is used without the readability check.
CacheImageBody_TrustsExisting(images, image_url, outcome) ==
    LET filename == ImagePath(image_url)
    IN  IF images[filename] # "absent"
        THEN [exc |-> "", ret |-> filename, images |-> images, net |-> <<>>]
        ELSE CacheImageBody_AlwaysDownload(images, image_url, outcome)

\* The body of _cache_image's outer try: the existing-file check, then the
\* download.  exc names the exception that leaves the body, "" when it
\* returns.  requests.RequestException is caught inside; an error of open()
\* or f.write() is not.
CacheImageBody(images, image_url, outcome) ==
    LET filename == ImagePath(image_url)
        get == <<[url |-> image_url, outcome |-> outcome]>>
    IN  IF images[filename] # "absent" /\ Readable(images[filename])
        THEN [exc |-> "", ret |-> filename, images |-> images, net |-> <<>>]
        ELSE CASE outcome = "200" ->
                    [exc |-> "", ret |-> filename,
                     images |-> [images EXCEPT ![filename] = "ok"], net |-> get]
               [] outcome = "404" ->
                    [exc |-> "", ret |-> "", images |-> images, net |-> get]
               [] outcome = "RequestException" ->
                    [exc |-> "", ret |-> "", images |-> images, net |-> get]
               [] outcome = "OpenError" ->
                    [exc |-> "OSError", ret |-> "", images |-> images, net |-> get]
               [] outcome = "WriteError" ->
                    [exc |-> "OSError", ret |-> "",
                     images |-> [images EXCEPT ![filename] = "partial"],
                     net |-> get]

\* Mutant: no outer "except Exception", a file error reaches the caller.
_cache_image_NoOuterExcept(images, image_url, outcome) ==
    LET body == CacheImageBody(images, image_url, outcome)
    IN  [ret |-> body.ret, raised |-> body.exc # "", images |-> body.images,
         net |-> body.net]

\* _cache_image(image_url) on the images directory `images`, the HTTP
\* exchange (if one is made) ending as `outcome`: the outer try turns any
\* exception into the return value "".
_cache_image(images, image_url, outcome) ==
    LET body == CacheImageBody(images, image_url, outcome)
    IN  IF body.exc # ""
        THEN [ret |-> "", raised |-> FALSE, images |-> body.images,
              net |-> body.net]
        ELSE [ret |-> body.ret, raised |-> FALSE, images |-> body.images,
              net |-> body.net]

\* open(filename, 'wb') stamps the file with the current time: the image
\* files whose state a call changed are the ones it opened for writing.
Touch(mtimes, before, after, t) ==
    [f \in DOMAIN mtimes |-> IF before[f] # after[f] THEN t ELSE mtimes[f]]

\* --------------------------------------------------------- cache_landmarks
\* Mutant: no copy is made, cached_landmark is the caller's dict itself.
dict_copy_Alias(i) == i

\* landmark.copy() for the dict at position i of the caller's list: a new
\* dict with the same items.  The result names the position in the caller's
\* list of the dict that an assignment through the copy changes; a new dict
\* is at no position of that list (0).
dict_copy(i) == 0

\* The image loop of cache_landmarks, from landmark i on; acc carries
\* cached_landmarks, the images directory, the requests made so far and the
\* caller's list as it stands.
\* Every landmark dict an adapter builds has a 'title', so the log line
\* cannot fail; an exception inside the loop body (res.raised) would drop
\* the landmark without stopping the loop.
\*
\* Mutant (the first of the two definitions): a landmark whose image could
\* not be cached is left out of cached_landmarks.
RECURSIVE ProcessLandmarks_DropsFailed(_, _, _, _)
ProcessLandmarks_DropsFailed(landmarks, outcomes, i, acc) ==
    IF i > Len(landmarks) THEN acc
    ELSE LET landmark == landmarks[i]
             hasImage == landmark.image_url # NoImage
             res == IF hasImage
                    THEN _cache_image(acc.images, landmark.image_url, outcomes[i])
                    ELSE [ret |-> "", raised |-> FALSE, images |-> acc.images,
                          net |-> <<>>]
         IN  ProcessLandmarks_DropsFailed(landmarks, outcomes, i + 1,
                 [cached_landmarks |->
                      IF hasImage /\ res.ret = "" THEN acc.cached_landmarks
                      ELSE Append(acc.cached_landmarks,
                                  IF hasImage
                                  THEN [landmark EXCEPT !.image_url = res.ret]
                                  ELSE landmark),
                  images |-> res.images,
                  net |-> acc.net \o res.net,
                  caller |-> acc.caller])

RECURSIVE ProcessLandmarks(_, _, _, _)
ProcessLandmarks(landmarks, outcomes, i, acc) ==
    IF i > Len(landmarks) THEN acc
    ELSE LET landmark == landmarks[i]
             hasImage == landmark.image_url # NoImage
             res == IF hasImage
                    THEN _cache_image(acc.images, landmark.image_url, outcomes[i])
                    ELSE [ret |-> "", raised |-> FALSE, images |-> acc.images,
                          net |-> <<>>]
             \* cached_landmark = landmark.copy()
             copy == dict_copy(i)
             \* cached_landmark["image_url"] = cached_path
             cached_landmark ==
                 IF hasImage /\ res.ret # ""
                 THEN [landmark EXCEPT !.image_url = res.ret]
                 ELSE landmark
             caller ==
                 IF hasImage /\ res.ret # "" /\ copy \in DOMAIN acc.caller
                 THEN [acc.caller EXCEPT ![copy].image_url = res.ret]
                 ELSE acc.caller
         IN  ProcessLandmarks(landmarks, outcomes, i + 1,
                 [cached_landmarks |->
                      IF res.raised THEN acc.cached_landmarks
                      ELSE Append(acc.cached_landmarks, cached_landmark),
                  images |-> res.images,
                  net |-> acc.net \o res.net,
                  caller |-> caller])

\* open(cache_path, 'w') + json.dump(obj)
WriteJson(dir, cache_path, obj, wr, t) ==
    CASE wr = "ok" ->
            [dir EXCEPT ![cache_path] =
                [kind |-> "json", text |-> JsonDump(obj), mtime |-> t]]
      [] wr = "OpenError" -> dir
      [] wr = "WriteError" ->
            [dir EXCEPT ![cache_path] = [kind |-> "truncated", mtime |-> t]]

CacheManager_cache_landmarks(dir, images, landmarks, query, outcomes, wr, t) ==
    LET cache_path == "landmarks.json"
        loop == ProcessLandmarks(landmarks, outcomes, 1,
                    [cached_landmarks |-> <<>>, images |-> images, net |-> <<>>,
                     caller |-> landmarks])
        obj == [landmarks |-> loop.cached_landmarks, timestamp |-> t,
                query |-> query]
    IN  [dir |-> WriteJson(dir, cache_path, obj, wr, t),
         images |-> loop.images, net |-> loop.net, raised |-> wr # "ok",
         caller |-> loop.caller]

OfflineCacheManager_cache_landmarks(dir, images, landmarks, bounds, outcomes, wr, t) ==
    LET bounds_key == "_1"
        cache_path == "landmarks_" \o bounds_key \o ".json"
        loop == ProcessLandmarks(landmarks, outcomes, 1,
                    [cached_landmarks |-> <<>>, images |-> images, net |-> <<>>,
                     caller |-> landmarks])
        obj == [landmarks |-> loop.cached_landmarks, timestamp |-> t,
                query |-> bounds]
    IN  [dir |-> WriteJson(dir, cache_path, obj, wr, t),
         images |-> loop.images, net |-> loop.net, raised |-> wr # "ok",
         caller |-> loop.caller]

\* len(os.listdir(...)) of the two directories, as cache_landmarks records it.
Stats(dir, images, t) ==
    [landmarks_cached |-> Cardinality({f \in DOMAIN dir : dir[f].kind # "absent"}),
     images_cached |-> Cardinality({f \in DOMAIN images : images[f] # "absent"}),
     last_update |-> t]

\* ------------------------------------------------- the entry file as text
\* The text json.dump produces, in the pieces it hands to f.write: the
\* opening of the document up to the landmark array, one piece per
\* landmark, and the closing piece with the timestamp and the query.
DocHead == [t |-> "head"]

DocRec(landmark) == [t |-> "rec", landmark |-> landmark]

DocTail(timestamp, query) == [t |-> "tail", timestamp |-> timestamp, query |-> query]

\* bytes no write has filled (a write beyond the end of the file)
Hole == [t |-> "hole"]

Serialize(obj) ==
    <<DocHead>>
    \o [i \in 1..Len(obj.landmarks) |-> DocRec(JsonDumpLandmark(obj.landmarks[i]))]
    \o <<DocTail(obj.timestamp, obj.query)>>

\* json.load accepts the text: one document and nothing after it
Parses(bytes) ==
    /\ Len(bytes) >= 2
    /\ bytes[1].t = "head"
    /\ bytes[Len(bytes)].t = "tail"
    /\ \A i \in 2..(Len(bytes) - 1) : bytes[i].t = "rec"

ParseJson(bytes) ==
    [landmarks |-> [i \in 1..(Len(bytes) - 2) |-> bytes[i + 1].landmark],
     timestamp |-> bytes[Len(bytes)].timestamp,
     query |-> bytes[Len(bytes)].query]

\* The file whose content is bytes: an entry if json.load accepts it, a
\* file json.load rejects (kind "bytes") otherwise.
FileOfBytes(bytes, t) ==
    IF Parses(bytes)
    THEN [kind |-> "json", text |-> ParseJson(bytes), mtime |-> t]
    ELSE [kind |-> "bytes", bytes |-> bytes, mtime |-> t]

\* The content of a file of the landmarks directory.
BytesOf(file) ==
    CASE file.kind = "json" ->
            <<DocHead>>
            \o [i \in 1..Len(file.text.landmarks) |-> DocRec(file.text.landmarks[i])]
            \o <<DocTail(file.text.timestamp, file.text.query)>>
      [] file.kind = "bytes" -> file.bytes
      [] OTHER -> <<>>

\* write(fd, piece) at file offset pos: the piece replaces what was there
\* or extends the file, leaving a hole if pos is beyond the end
WriteAt(bytes, pos, piece) ==
    IF pos < Len(bytes)
    THEN [bytes EXCEPT ![pos + 1] = piece]
    ELSE bytes \o [i \in 1..(pos - Len(bytes)) |-> Hole] \o <<piece>>

\* the entry file cache_landmarks of class i writes
CachePath(i) ==
    IF i = "CacheManager" THEN "landmarks.json" ELSE "landmarks__1.json"

\* ---------------------------------------------------- get_cached_landmarks
\* open + json.load + ["landmarks"]: the value, or the exception raised
ReadLandmarks(file) ==
    CASE file.kind = "absent" -> [exc |-> "FileNotFoundError"]
      [] file.kind = "unreadable" -> [exc |-> "PermissionError"]
      [] file.kind = "truncated" -> [exc |-> "JSONDecodeError"]
      [] file.kind = "bytes" -> [exc |-> "JSONDecodeError"]
      [] file.kind = "no_landmarks_key" -> [exc |-> "KeyError"]
      [] file.kind = "json" -> [exc |-> "", landmarks |-> JsonLoad(file.text).landmarks]

\* Mutant: the handler catches only file and JSON errors, a KeyError escapes.
CacheManager_get_cached_landmarks_NarrowExcept(dir, query, max_age) ==
    LET cache_path == "landmarks.json"
        read == ReadLandmarks(dir[cache_path])
    IN  IF read.exc # ""
        THEN [ret |-> <<>>, raised |-> read.exc = "KeyError"]
        ELSE [ret |-> read.landmarks, raised |-> FALSE]

CacheManager_get_cached_landmarks(dir, query, max_age) ==
    LET cache_path == "landmarks.json"
        read == ReadLandmarks(dir[cache_path])
    IN  IF read.exc # ""
        THEN [ret |-> <<>>, raised |-> FALSE]
        ELSE [ret |-> read.landmarks, raised |-> FALSE]

\* Mutant: an entry that cannot be read is deleted by the read.
get_cached_landmarks_files_EvictsUnreadable(i, dir, images) ==
    LET cache_path == IF i = "CacheManager" THEN "landmarks.json"
                      ELSE "landmarks_1.json"
    IN  [dir |-> IF dir[cache_path].kind \notin {"absent", "json"}
                 THEN [dir EXCEPT ![cache_path] = Absent]
                 ELSE dir,
         images |-> images]

\* What get_cached_landmarks of class i does to the two directories: it
\* opens the entry file for reading and calls nothing that writes, renames
\* or removes a file, in the try body and in the except branch alike.
get_cached_landmarks_files(i, dir, images) ==
    [dir |-> dir, images |-> images]

UseCachedImage(landmark) ==
    IF "cached_image" \in DOMAIN landmark
    THEN [landmark EXCEPT !.image_url = landmark.cached_image]
    ELSE landmark

OfflineCacheManager_get_cached_landmarks(dir, bounds, max_age_hours) ==
    LET closest_cache == "landmarks_1.json"
        read == ReadLandmarks(dir[closest_cache])
        age_hours == 0
    IN  IF read.exc # ""
        THEN [ret |-> <<>>, raised |-> FALSE]
        ELSE IF age_hours <= max_age_hours
             THEN [ret |-> [i \in 1..Len(read.landmarks) |->
                               UseCachedImage(read.landmarks[i])],
                   raised |-> FALSE]
             ELSE [ret |-> <<>>, raised |-> FALSE]

\* ---------------------------------------------------------- clear_old_cache
ExistingLandmarkFiles(dir) == {f \in DOMAIN dir : dir[f].kind # "absent"}

ExistingImageFiles(images) == {f \in DOMAIN images : images[f] # "absent"}

\* Mutant: a file whose age equals max_age_hours counts as old.
Expired_AtOrOver(mtime, current_time, max_age_hours) ==
    mtime <= current_time - max_age_hours

\* os.path.getmtime(path) < current_time - (max_age_hours * 3600), in hours
Expired(mtime, current_time, max_age_hours) ==
    mtime < current_time - max_age_hours

\* The ways one run of the two os.listdir loops can go.  fault is the file
\* at which os.path.getmtime or os.remove raises ("none": no call raises),
\* visited the files the loops handled before that point, in whatever order
\* os.listdir gave them: the landmarks directory is listed first, the
\* images directory after it.
SweepRuns(dir, images) ==
    LET L == ExistingLandmarkFiles(dir)
        I == ExistingImageFiles(images)
    IN  {[fault |-> "none", visited |-> L \cup I]}
        \cup {[fault |-> f, visited |-> v] : f \in L, v \in SUBSET L}
        \cup {[fault |-> f, visited |-> L \cup v] : f \in I, v \in SUBSET I}

\* clear_old_cache(max_age_hours) at time current_time.  Every visited file
\* that is old is removed; an exception leaves the loops at once, skips
\* st.success and shows st.warning.  The method returns None.
OfflineCacheManager_clear_old_cache(dir, images, mtimes, max_age_hours, current_time, run) ==
    LET visited == run.visited \ {run.fault}
        removed_landmarks ==
            {f \in visited \cap ExistingLandmarkFiles(dir) :
                Expired(dir[f].mtime, current_time, max_age_hours)}
        removed_images ==
            {f \in visited \cap ExistingImageFiles(images) :
                Expired(mtimes[f], current_time, max_age_hours)}
        cleared_count == Cardinality(removed_landmarks) + Cardinality(removed_images)
    IN  [dir |-> [f \in DOMAIN dir |->
                    IF f \in removed_landmarks THEN Absent ELSE dir[f]],
         images |-> [f \in DOMAIN images |->
                    IF f \in removed_images THEN "absent" ELSE images[f]],
         mtimes |-> [f \in DOMAIN mtimes |->
                    IF f \in removed_images THEN 0 ELSE mtimes[f]],
         shown |-> IF run.fault # "none"
                   THEN [kind |-> "warning", count |-> 0]
                   ELSE IF cleared_count > 0
                        THEN [kind |-> "success", count |-> cleared_count]
                        ELSE NoMessage,
         raised |-> FALSE]

\* ------------------------------------------------------------ get_landmarks
\* get_landmarks fetches only from this zoom level on
MinFetchZoom == 8

ZoomLevels == {MinFetchZoom - 1, MinFetchZoom}

\* language argument of get_landmarks (its default)
Language == "en"

\* What the adapter does when get_landmarks reaches it
\* (GooglePlacesHandler().get_landmarks(bounds) or
\* WikiLandmarkFetcher().get_landmarks(bounds)): it raises, or it returns a
\* list of landmark dicts, possibly empty.
AdapterOutcomes ==
    {[raises |-> TRUE, landmarks |-> <<>>]}
    \cup {[raises |-> FALSE, landmarks |-> b] : b \in Batches}

\* cache_manager.get_cached_landmarks(bounds, language).  CacheManager takes
\* the language as its radius_km.  OfflineCacheManager takes it as
\* max_age_hours: a read that fails ends in the except branch, a read that
\* succeeds goes on to compare 0 <= 'en', a TypeError inside the same try;
\* both return [].
cache_manager_get_cached_landmarks(i, dir, bounds, language) ==
    IF i = "CacheManager"
    THEN CacheManager_get_cached_landmarks(dir, bounds, language)
    ELSE IF ReadLandmarks(dir["landmarks_1.json"]).exc # ""
         THEN [ret |-> <<>>, raised |-> FALSE]
         ELSE [ret |-> <<>>, raised |-> FALSE]

\* cache_manager.cache_landmarks(landmarks, bounds, language).  CacheManager
\* takes the language as its radius_km.  OfflineCacheManager.cache_landmarks
\* has the parameters (landmarks, bounds): the call raises TypeError before
\* the method body runs.
cache_manager_cache_landmarks(i, dir, images, landmarks, bounds, language, outcomes, wr, t) ==
    IF i = "CacheManager"
    THEN CacheManager_cache_landmarks(dir, images, landmarks, bounds,
                                      outcomes, wr, t)
    ELSE [dir |-> dir, images |-> images, net |-> <<>>, raised |-> TRUE,
          caller |-> landmarks]

\* Mutant: the result of the adapter is returned even when caching it failed.
get_landmarks_CacheFailureIgnored(i, dir, images, bounds, zoom_level, language, offline_mode, fetch, outcomes, wr, t) ==
    LET put == cache_manager_cache_landmarks(i, dir, images, fetch.landmarks,
                   bounds, language, outcomes, wr, t)
    IN  IF offline_mode \/ zoom_level < MinFetchZoom \/ fetch.raises
           \/ fetch.landmarks = <<>>
        THEN [ret |-> <<>>, dir |-> dir, images |-> images, net |-> <<>>,
              called |-> ~offline_mode /\ zoom_level >= MinFetchZoom,
              put |-> FALSE, cache_called |-> FALSE, shown |-> NoMessage,
              raised |-> FALSE, caller |-> fetch.landmarks]
        ELSE [ret |-> fetch.landmarks, dir |-> put.dir, images |-> put.images,
              net |-> put.net, called |-> TRUE, put |-> ~put.raised,
              cache_called |-> TRUE, shown |-> NoMessage, raised |-> FALSE,
              caller |-> put.caller]

\* Mutant: an empty adapter result is cached like any other.
get_landmarks_CachesEmpty(i, dir, images, bounds, zoom_level, language, offline_mode, fetch, outcomes, wr, t) ==
    LET put == cache_manager_cache_landmarks(i, dir, images, fetch.landmarks,
                   bounds, language, outcomes, wr, t)
    IN  IF offline_mode \/ zoom_level < MinFetchZoom \/ fetch.raises
        THEN [ret |-> <<>>, dir |-> dir, images |-> images, net |-> <<>>,
              called |-> ~offline_mode /\ zoom_level >= MinFetchZoom,
              put |-> FALSE, cache_called |-> FALSE, shown |-> NoMessage,
              raised |-> FALSE, caller |-> fetch.landmarks]
        ELSE [ret |-> IF put.raised THEN <<>> ELSE fetch.landmarks,
              dir |-> put.dir, images |-> put.images,
              net |-> put.net, called |-> TRUE, put |-> ~put.raised,
              cache_called |-> TRUE, shown |-> NoMessage, raised |-> FALSE,
              caller |-> put.caller]

\* Mutant: the offline flag is not looked at, every call takes the online
\* path.
get_landmarks_OfflineFetches(i, dir, images, bounds, zoom_level, language, offline_mode, fetch, outcomes, wr, t) ==
    get_landmarks_CacheFailureIgnored(i, dir, images, bounds, zoom_level,
        language, FALSE, fetch, outcomes, wr, t)

\* get_landmarks(bounds, zoom_level, language, data_source) with
\* st.session_state.offline_mode = offline_mode; fetch is what the adapter
\* does if it is called, outcomes and wr what the image downloads and the
\* entry write of cache_landmarks do if it is called.
\*   called        the adapter's get_landmarks was called
\*   cache_called  cache_manager.cache_landmarks was called
\*   put           cache_manager.cache_landmarks was called and returned
get_landmarks(i, dir, images, bounds, zoom_level, language, offline_mode, fetch, outcomes, wr, t) ==
    LET untouched == [dir |-> dir, images |-> images, net |-> <<>>,
                      put |-> FALSE, cache_called |-> FALSE, raised |-> FALSE,
                      caller |-> fetch.landmarks]
        cached == cache_manager_get_cached_landmarks(i, dir, bounds, language)
        \* except Exception: st.error, then the cache if offline, else []
        handler == [ret |-> IF offline_mode THEN cached.ret ELSE <<>>,
                    shown |-> [kind |-> "error", count |-> 0]]
        put == cache_manager_cache_landmarks(i, dir, images, fetch.landmarks,
                   bounds, language, outcomes, wr, t)
    IN  IF offline_mode
        THEN untouched @@ [ret |-> cached.ret, called |-> FALSE,
                           shown |-> NoMessage]
        ELSE IF zoom_level >= MinFetchZoom
        THEN IF fetch.raises
             THEN untouched @@ handler @@ [called |-> TRUE]
             ELSE IF fetch.landmarks # <<>>
                  THEN IF put.raised
                       THEN [dir |-> put.dir, images |-> put.images,
                             net |-> put.net, put |-> FALSE, raised |-> FALSE,
                             cache_called |-> TRUE, called |-> TRUE,
                             caller |-> put.caller] @@ handler
                       ELSE [dir |-> put.dir, images |-> put.images,
                             net |-> put.net, put |-> TRUE, raised |-> FALSE,
                             cache_called |-> TRUE, called |-> TRUE,
                             caller |-> put.caller, ret |-> fetch.landmarks,
                             shown |-> NoMessage]
                  ELSE untouched @@ [ret |-> fetch.landmarks, called |-> TRUE,
                                     shown |-> NoMessage]
        ELSE untouched @@ [ret |-> <<>>, called |-> FALSE, shown |-> NoMessage]

\* -------------------------------------------------------------- coord_utils
\* Strings are sequences of one-character strings.  The floats of this
\* part are the integer-valued ones, written by Python with a ".0".
Digits == <<"0", "1", "2", "3", "4", "5", "6", "7", "8", "9">>

IsDigit(c) == \E d \in 1..Len(Digits) : Digits[d] = c

DigitValue(c) == (CHOOSE d \in 1..Len(Digits) : Digits[d] = c) - 1

RECURSIVE NatToChars(_)
NatToChars(n) ==
    IF n < Len(Digits) THEN <<Digits[n + 1]>>
    ELSE NatToChars(n \div Len(Digits)) \o <<Digits[(n % Len(Digits)) + 1]>>

RECURSIVE CharsToNat(_, _)
CharsToNat(chars, acc) ==
    IF chars = <<>> THEN acc
    ELSE CharsToNat(Tail(chars), acc * Len(Digits) + DigitValue(Head(chars)))

\* f"{x}" of a float: sign, integer digits, ".0"
FormatFloat(x) ==
    (IF x < 0 THEN <<"-">> ELSE <<>>)
    \o NatToChars(IF x < 0 THEN -x ELSE x) \o <<".", "0">>

\* f"{lat}, {lon}"
FormatPair(lat, lon) == FormatFloat(lat) \o <<",", " ">> \o FormatFloat(lon)

\* str.strip()
RECURSIVE Strip(_)
Strip(chars) ==
    IF chars = <<>> THEN chars
    ELSE IF Head(chars) = " " THEN Strip(Tail(chars))
    ELSE IF chars[Len(chars)] = " " THEN Strip(SubSeq(chars, 1, Len(chars) - 1))
    ELSE chars

\* str.split(","), the part in progress in cur
RECURSIVE Split(_, _)
Split(chars, cur) ==
    IF chars = <<>> THEN <<cur>>
    ELSE IF Head(chars) = "," THEN <<cur>> \o Split(Tail(chars), <<>>)
    ELSE Split(Tail(chars), Append(cur, Head(chars)))

\* the one-character string of the degree sign
DegreeSign == "deg"

Contains(chars, c) == \E i \in 1..Len(chars) : chars[i] = c

\* Mutant: the sign of the number is dropped.
float_Unsigned(chars) ==
    LET text == Strip(chars)
        body == IF text # <<>> /\ Head(text) \in {"-", "+"} THEN Tail(text) ELSE text
        dots == {i \in 1..Len(body) : body[i] = "."}
        dot == IF dots = {} THEN Len(body) + 1 ELSE CHOOSE i \in dots : TRUE
        whole == SubSeq(body, 1, dot - 1)
    IN  IF Cardinality(dots) <= 1 /\ whole # <<>>
           /\ \A i \in 1..Len(body) : i \in dots \/ IsDigit(body[i])
        THEN [some |-> TRUE, value |-> CharsToNat(whole, 0)]
        ELSE None

\* float(s) for the strings of the model: optional sign, digits, optional
\* "." and digits, surrounded by optional blanks; None stands for
\* ValueError.  The fractional digits of the model's strings are zeros, so
\* the value is the integer part.
float(chars) ==
    LET text == Strip(chars)
        signed == text # <<>> /\ Head(text) \in {"-", "+"}
        body == IF signed THEN Tail(text) ELSE text
        dots == {i \in 1..Len(body) : body[i] = "."}
        dot == IF dots = {} THEN Len(body) + 1 ELSE CHOOSE i \in dots : TRUE
        whole == SubSeq(body, 1, dot - 1)
        fraction == SubSeq(body, dot + 1, Len(body))
        magnitude == CharsToNat(whole, 0)
    IN  IF /\ Cardinality(dots) <= 1
           /\ Len(whole) + Len(fraction) >= 1
           /\ \A i \in 1..Len(body) : i \in dots \/ IsDigit(body[i])
        THEN [some |-> TRUE,
              value |-> IF signed /\ Head(text) = "-" THEN -magnitude
                        ELSE magnitude]
        ELSE None

\* parse_dd(dd): float(dd.strip()), None on ValueError
parse_dd(dd) == float(Strip(dd))

\* parse_dms(dms): re.match of the DMS pattern.  The strings of the model
\* that hold a degree sign have no minutes and no seconds, so the pattern
\* does not match.
parse_dms(dms) == None

Coordinates(lat, lon) == [some |-> TRUE, lat |-> lat, lon |-> lon]

parse_coordinates(coord_str) ==
    LET parts == Split(Strip(coord_str), <<>>)
        lat_str == Strip(parts[1])
        lon_str == Strip(parts[2])
        dms == Contains(lat_str, DegreeSign) /\ Contains(lon_str, DegreeSign)
        lat == IF dms THEN parse_dms(lat_str) ELSE parse_dd(lat_str)
        lon == IF dms THEN parse_dms(lon_str) ELSE parse_dd(lon_str)
    IN  IF Len(parts) # 2 THEN None
        ELSE IF lat.some /\ lon.some /\ validate_coords(lat.value, lon.value)
             THEN Coordinates(lat.value, lon.value)
             ELSE None

\* The pairs whose decimal strings are parsed: the range limits, their
\* neighbours, and values inside and far outside.
LatValues == {-1000, -91, -90, -89, -45, 0, 9, 37, 89, 90, 91, 200}

LonValues == {-1000, -181, -180, -179, -122, 0, 10, 179, 180, 181, 360}

\* Strings that are not the decimal string of a pair: a word, one number,
\* three numbers, a pair with blanks around it, a pair of bare degrees.
OtherStrings ==
    { <<"a", "b", "c">>,
      <<"1", ".", "0">>,
      <<"1", ".", "0", ",", "2", ".", "0", ",", "3", ".", "0">>,
      <<" ", "3", "7", ".", "0", " ", ",", "-", "1", "2", "2", ".", "0", " ">>,
      <<"3", "7", DegreeSign, ",", "1", "2", "2", DegreeSign>>,
      <<"-", ",", ".">> }

\* ------------------------------------------------------ GooglePlacesHandler
\* Entries of "test_landmarks" in config.json, in file order; 'url' is
\* optional.
FixtureFerry ==
    [title |-> "Ferry Building", image_url |-> "http://example/a.jpg",
     lat |-> 37, lon |-> -122, url |-> "http://example/ferry"]

FixturePark ==
    [title |-> "City Park", image_url |-> NoImage, lat |-> 48, lon |-> 2]

TestFixtures == {<<>>, <<FixtureFerry>>, <<FixtureFerry, FixturePark>>}

Centers == {<<37, -122>>, <<48, 2>>, <<0, 0>>}

Radii == {0, 1, 50}

\* the dict get_landmarks builds for one test landmark
TestLandmark(landmark) ==
    [title |-> landmark.title,
     summary |-> "Test summary for " \o landmark.title,
     url |-> IF "url" \in DOMAIN landmark THEN landmark.url ELSE "",
     image_url |-> landmark.image_url,
     distance |-> 0,
     relevance |-> 1,
     coordinates |-> [py |-> "tuple", lat |-> landmark.lat, lon |-> landmark.lon]]

\* Mutant: the distance filter of the loop is applied in test mode too;
\* only landmarks at the center pass a radius of 0.
GooglePlacesHandler_get_landmarks_RadiusFilter(test_mode, test_landmarks, center_coords, radius_km, api) ==
    [result |-> SelectSeq([i \in 1..Len(test_landmarks) |->
                              TestLandmark(test_landmarks[i])],
                          LAMBDA l : \/ radius_km > 0
                                     \/ /\ l.coordinates.lat = center_coords[1]
                                        /\ l.coordinates.lon = center_coords[2]),
     raised |-> FALSE, client_called |-> FALSE, rate_limited |-> FALSE]

\* GooglePlacesHandler.get_landmarks(center_coords, radius_km).  In test
\* mode the fixture is returned before _rate_limit and before any use of
\* self.client.  Otherwise _rate_limit runs and the Places API is called;
\* api is what that call and the processing of its result come to.
GooglePlacesHandler_get_landmarks(test_mode, test_landmarks, center_coords, radius_km, api) ==
    IF test_mode
    THEN [result |-> [i \in 1..Len(test_landmarks) |->
                         TestLandmark(test_landmarks[i])],
          raised |-> FALSE, client_called |-> FALSE, rate_limited |-> FALSE]
    ELSE [result |-> IF api.raises THEN <<>> ELSE api.landmarks,
          raised |-> api.raises, client_called |-> TRUE, rate_limited |-> TRUE]

\* ----------------------------------------------------------- JourneyTracker
\* self.available_achievements, in list order
available_achievements ==
    << [name |-> "Explorer Novice", requirement |-> 5],
       [name |-> "Seasoned Traveler", requirement |-> 15],
       [name |-> "Master Explorer", requirement |-> 30],
       [name |-> "Legend of Discovery", requirement |-> 50] >>

\* Mutant: an achievement is awarded on every call whose count has reached
\* its requirement, earned before or not.
_check_achievements_AwardsAgain(discovered_landmarks, achievements) ==
    LET current_count == Cardinality(discovered_landmarks)
        due == SelectSeq(available_achievements,
                         LAMBDA a : current_count >= a.requirement)
    IN  [achievements |-> achievements \cup {due[k].name : k \in 1..Len(due)},
         new_achievements |-> [k \in 1..Len(due) |-> due[k].name]]

\* the for loop of _check_achievements, from achievement k on
RECURSIVE CheckAchievementsFrom(_, _, _)
CheckAchievementsFrom(current_count, k, acc) ==
    IF k > Len(available_achievements) THEN acc
    ELSE LET achievement == available_achievements[k]
         IN  CheckAchievementsFrom(current_count, k + 1,
                 IF /\ current_count >= achievement.requirement
                    /\ achievement.name \notin acc.achievements
                 THEN [achievements |-> acc.achievements \cup {achievement.name},
                       new_achievements |->
                           Append(acc.new_achievements, achievement.name)]
                 ELSE acc)

\* _check_achievements(): the achievements set after the call and the list
\* returned (by name)
_check_achievements(discovered_landmarks, achievements) ==
    CheckAchievementsFrom(Cardinality(discovered_landmarks), 1,
        [achievements |-> achievements, new_achievements |-> <<>>])

\* add_discovery(landmark_id, landmark_name) on the session state j at
\* time t.  For an id discovered before the dict returned is
\* {"is_new": False}; its missing keys are 0 and <<>> here.
add_discovery(j, landmark_id, t) ==
    IF landmark_id \notin j.discovered_landmarks
    THEN LET discovered == j.discovered_landmarks \cup {landmark_id}
             checked == _check_achievements(discovered, j.achievements)
         IN  [discovered_landmarks |-> discovered,
              achievements |-> checked.achievements,
              last_discovery_time |-> [some |-> TRUE, value |-> t],
              result |-> [some |-> TRUE, is_new |-> TRUE,
                          discovery_count |-> Cardinality(discovered),
                          new_achievements |-> checked.new_achievements]]
    ELSE [discovered_landmarks |-> j.discovered_landmarks,
          achievements |-> j.achievements,
          last_discovery_time |-> j.last_discovery_time,
          result |-> [some |-> TRUE, is_new |-> FALSE, discovery_count |-> 0,
                      new_achievements |-> <<>>]]

\* ----------------------------------------------------------- WeatherHandler
\* Coordinates are given in thousandths of a degree.  A float with two
\* decimals is its sign and its magnitude in hundredths, so that -0.0 and
\* 0.0 are two values, as they are in Python.

\* timedelta(minutes=30)
CacheValidMinutes == 30

\* round(x, 2): half to even, the sign of x kept (round(-0.001, 2) is -0.0)
round2(x) ==
    LET a == IF x < 0 THEN -x ELSE x
        q == a \div 10
        r == a % 10
    IN  [neg |-> x < 0,
         mag |-> IF r < 5 THEN q
                 ELSE IF r > 5 THEN q + 1
                 ELSE IF q % 2 = 0 THEN q ELSE q + 1]

\* f"{v}" of a float with two decimals: "-" if signed, the integer digits,
\* ".", and the decimals without a trailing zero ("37.77", "37.7", "37.0")
FormatRounded(v) ==
    (IF v.neg THEN <<"-">> ELSE <<>>)
    \o NatToChars(v.mag \div 100) \o <<".">>
    \o <<Digits[((v.mag % 100) \div 10) + 1]>>
    \o (IF v.mag % 10 = 0 THEN <<>> ELSE <<Digits[(v.mag % 10) + 1]>>)

\* cache_key = f"{round(lat, 2)},{round(lon, 2)}"
cache_key(lat, lon) ==
    FormatRounded(round2(lat)) \o <<",">> \o FormatRounded(round2(lon))

\* Python's == on two rounded floats: -0.0 == 0.0
FloatEq(v, w) == v.mag = w.mag /\ (v.neg = w.neg \/ v.mag = 0)

\* _is_cache_valid(cache_key) at time t: the key has a time and its age is
\* less than 30 minutes
_is_cache_valid(weather_cache_time, key, t) ==
    IF key \in DOMAIN weather_cache_time
    THEN t - weather_cache_time[key] < CacheValidMinutes
    ELSE FALSE

\* What requests.get, raise_for_status, response.json() and the formatting
\* of the answer come to: the formatted data, or an exception.
WeatherResponses == {"ok", "error"}

\* get_weather(lat, lon) at time t on the session state w
get_weather(w, lat, lon, response, t) ==
    LET key == cache_key(lat, lon)
        formatted_data == [description |-> "Clear sky", timestamp |-> t]
    IN  IF _is_cache_valid(w.weather_cache_time, key, t)
        THEN [weather_cache |-> w.weather_cache,
              weather_cache_time |-> w.weather_cache_time,
              ret |-> [some |-> TRUE, value |-> w.weather_cache[key]],
              http |-> FALSE]
        ELSE IF response = "ok"
        THEN [weather_cache |->
                  [k \in DOMAIN w.weather_cache \cup {key} |->
                      IF k = key THEN formatted_data ELSE w.weather_cache[k]],
              weather_cache_time |->
                  [k \in DOMAIN w.weather_cache_time \cup {key} |->
                      IF k = key THEN t ELSE w.weather_cache_time[k]],
              ret |-> [some |-> TRUE, value |-> formatted_data],
              http |-> TRUE]
        ELSE [weather_cache |-> w.weather_cache,
              weather_cache_time |-> w.weather_cache_time,
              ret |-> None, http |-> TRUE]

\* The map centers get_weather is called with, in thousandths of a degree:
\* two points 0.002 degrees apart on either side of the equator, and two
\* points of San Francisco with the same two-decimal rounding.
WeatherLocations ==
    { <<1, 10000>>, <<-1, 10000>>, <<37774, -122419>>, <<37771, -122421>> }

\* ------------------------------------------------------------- debug_panel
\* "Keep only last 50 entries"
LogLimit == 50

\* call_entry of update_api_stats
call_entry(api_name, status, t) ==
    [timestamp |-> t, api_name |-> api_name, status |-> status,
     response_time_ms |-> 0, result_count |-> 0]

\* Mutant: the log is cut to its first 50 entries.
update_api_stats_KeepsOldest(a, api_name, status, t) ==
    LET log == Append(a.api_call_log, call_entry(api_name, status, t))
    IN  [api_stats |->
            [google_places_calls |->
                 a.api_stats.google_places_calls
                 + (IF api_name = "Google Places" THEN 1 ELSE 0),
             last_call_time |-> [some |-> TRUE, value |-> t],
             last_call_status |-> status],
         api_call_log |->
            IF Len(log) > LogLimit THEN SubSeq(log, 1, LogLimit) ELSE log]

\* update_api_stats(api_name, status) at time t on the session state a
update_api_stats(a, api_name, status, t) ==
    LET log == Append(a.api_call_log, call_entry(api_name, status, t))
    IN  [api_stats |->
            [google_places_calls |->
                 a.api_stats.google_places_calls
                 + (IF api_name = "Google Places" THEN 1 ELSE 0),
             last_call_time |-> [some |-> TRUE, value |-> t],
             last_call_status |-> status],
         api_call_log |->
            IF Len(log) > LogLimit
            THEN SubSeq(log, Len(log) - LogLimit + 1, Len(log))
            ELSE log]

\* The calls made: a Google Places call that succeeded, a call of another
\* API that failed.
ApiCalls ==
    { [api_name |-> "Google Places", status |-> "success"],
      [api_name |-> "Wikipedia", status |-> "error"] }

\* GooglePlacesHandler.get_landmarks(bounds) of utils/google_places.py, the
\* adapter get_landmarks of main.py calls; bounds is (south, west, north,
\* east).  In test mode the fixture is returned whatever the bounds are;
\* otherwise the center and the radius are computed from the bounds and
\* the Places API is asked, api being what that comes to.  No branch
\* compares south with north or west with east.
GooglePlacesHandler_get_landmarks_bounds(test_mode, test_landmarks, bounds, api) ==
    IF test_mode
    THEN [raises |-> FALSE,
          landmarks |-> [i \in 1..Len(test_landmarks) |->
                            TestLandmark(test_landmarks[i])]]
    ELSE api

\* Bounds tuples (south, west, north, east): a proper box, a box with south
\* above north and west right of east, a single point.
BoundsValues ==
    { <<37, -123, 38, -122>>, <<38, -122, 37, -123>>, <<37, -122, 37, -122>> }

\* The fixtures and the Places API outcomes of the calls with bounds
\* tuples: landmarks come from the test fixture, the API raises or finds
\* nothing.
BoundsFixtures == {<<>>, <<FixtureFerry>>}

BoundsApiOutcomes == {a \in AdapterOutcomes : a.landmarks = <<>>}

\* south >= north or west >= east
Degenerate(bounds) == bounds[1] >= bounds[3] \/ bounds[2] >= bounds[4]

\* ------------------------------------------------------------------ actions
Init ==
    /\ impl \in Impls
    /\ now = 0
    /\ landmarks_dir = [f \in LandmarkFiles |-> Absent]
    /\ images_dir = [f \in ImageFiles |-> "absent"]
    /\ images_mtime = [f \in ImageFiles |-> 0]
    /\ cache_stats = [landmarks_cached |-> 0, images_cached |-> 0, last_update |-> -1]
    /\ op = "init"
    /\ ret = <<>>
    /\ raised = FALSE
    /\ net = <<>>
    /\ arg = NoArg
    /\ shown = NoMessage
    /\ fetched = NoFetch
    /\ writers = [w \in Writers |-> NotWriting]
    /\ coords = NoCoords
    /\ places = NoPlaces
    /\ lastPut = NoPut
    /\ everPut = {}
    /\ input_intact = TRUE
    /\ journey = NoJourney
    /\ weather = NoWeather
    /\ api_state = NoApi

\* An outcome is drawn for every landmark that has an image; the others
\* take no part in any HTTP exchange.
OutcomesFor(landmarks) ==
    { o \in [1..Len(landmarks) -> HttpOutcomes] :
        \A i \in 1..Len(landmarks) :
            landmarks[i].image_url = NoImage => o[i] = "200" }

PutCacheManager ==
    /\ impl = "CacheManager"
    /\ \E landmarks \in Batches, q \in Queries, wr \in WriteOutcomes :
       \E outcomes \in OutcomesFor(landmarks) :
         \E r \in {CacheManager_cache_landmarks(landmarks_dir, images_dir,
                        landmarks, q, outcomes, wr, now)} :
             /\ landmarks_dir' = r.dir
             /\ images_dir' = r.images
             /\ images_mtime' = Touch(images_mtime, images_dir, r.images, now)
             /\ net' = r.net
             /\ raised' = r.raised
             /\ input_intact' = (r.caller = landmarks)
             /\ lastPut' = IF r.raised THEN lastPut
                            ELSE [q |-> q, landmarks |-> landmarks, time |-> now]
             /\ everPut' = IF r.raised THEN everPut ELSE everPut \cup {q}
    /\ op' = "cache_landmarks"
    /\ ret' = <<>>
    /\ arg' = NoArg
    /\ shown' = NoMessage
    /\ fetched' = NoFetch
    /\ UNCHANGED <<sessionVars, coords, places, writers, impl, now, cache_stats>>

\* OfflineCacheManager.cache_landmarks(landmarks, bounds) with the landmark
\* list drawn from batches and the bounds from queries
PutOfflineOf(batches, queries) ==
    /\ impl = "OfflineCacheManager"
    /\ \E landmarks \in batches, q \in queries, wr \in WriteOutcomes :
       \E outcomes \in OutcomesFor(landmarks) :
         \E r \in {OfflineCacheManager_cache_landmarks(landmarks_dir, images_dir,
                        landmarks, q, outcomes, wr, now)} :
             /\ landmarks_dir' = r.dir
             /\ images_dir' = r.images
             /\ images_mtime' = Touch(images_mtime, images_dir, r.images, now)
             /\ net' = r.net
             /\ raised' = r.raised
             /\ input_intact' = (r.caller = landmarks)
             /\ cache_stats' = IF r.raised THEN cache_stats
                               ELSE Stats(r.dir, r.images, now)
             /\ lastPut' = IF r.raised THEN lastPut
                            ELSE [q |-> q, landmarks |-> landmarks, time |-> now]
             /\ everPut' = IF r.raised THEN everPut ELSE everPut \cup {q}
    /\ op' = "cache_landmarks"
    /\ ret' = <<>>
    /\ arg' = NoArg
    /\ shown' = NoMessage
    /\ fetched' = NoFetch
    /\ UNCHANGED <<sessionVars, coords, places, writers, impl, now>>

PutOffline == PutOfflineOf(Batches, Queries)

\* the puts of the sweep specification: one list, one bounds value
PutSweep == PutOfflineOf({<<FerryBuilding>>}, {"q1"})

Get ==
    /\ \E q \in Queries, max_age \in 0..MaxAge :
         \E r \in {IF impl = "CacheManager"
                  THEN CacheManager_get_cached_landmarks(landmarks_dir, q, max_age)
                  ELSE OfflineCacheManager_get_cached_landmarks(landmarks_dir, q, max_age)} :
             /\ ret' = r.ret
             /\ raised' = r.raised
             /\ arg' = [q |-> q, max_age |-> max_age, url |-> ""]
    /\ \E files \in {get_cached_landmarks_files(impl, landmarks_dir, images_dir)} :
         /\ landmarks_dir' = files.dir
         /\ images_dir' = files.images
    /\ op' = "get_cached_landmarks"
    /\ net' = <<>>
    /\ shown' = NoMessage
    /\ fetched' = NoFetch
    /\ UNCHANGED <<sessionVars, input_intact, coords, places, writers, impl, now, images_mtime,
                   cache_stats, lastPut, everPut>>

CacheImage ==
    /\ \E u \in URLs \cup {MalformedUrl}, outcome \in HttpOutcomes :
         /\ u = MalformedUrl => outcome = "RequestException"
         /\ \E r \in {_cache_image(images_dir, u, outcome)} :
                /\ images_dir' = r.images
                /\ images_mtime' = Touch(images_mtime, images_dir, r.images, now)
                /\ ret' = r.ret
                /\ raised' = r.raised
                /\ net' = r.net
                /\ arg' = [q |-> "", max_age |-> 0, url |-> u]
    /\ op' = "_cache_image"
    /\ shown' = NoMessage
    /\ fetched' = NoFetch
    /\ UNCHANGED <<sessionVars, input_intact, coords, places, writers, impl, now, landmarks_dir, cache_stats, lastPut, everPut>>

\* a step of the environment: no call has returned anything
NoCall ==
    /\ ret' = <<>>
    /\ raised' = FALSE
    /\ net' = <<>>
    /\ arg' = NoArg
    /\ shown' = NoMessage
    /\ fetched' = NoFetch

\* time passes
Tick ==
    /\ now < MaxTime
    /\ now' = now + 1
    /\ op' = "tick"
    /\ NoCall
    /\ UNCHANGED <<sessionVars, input_intact, coords, places, writers, impl, landmarks_dir, images_dir, images_mtime, cache_stats,
                 lastPut, everPut>>

\* an entry file is damaged on disk
CorruptEntry ==
    /\ \E f \in LandmarkFiles, k \in CorruptKinds :
         /\ landmarks_dir[f].kind # "absent"
         /\ landmarks_dir[f].kind # k
         /\ landmarks_dir' = [landmarks_dir EXCEPT ![f] =
                                 [kind |-> k, mtime |-> landmarks_dir[f].mtime]]
    /\ op' = "corrupt"
    /\ NoCall
    /\ UNCHANGED <<sessionVars, input_intact, coords, places, writers, impl, now, images_dir, images_mtime, cache_stats, lastPut,
                 everPut>>

\* an image file becomes unreadable on disk
CorruptImage ==
    /\ \E f \in ImageFiles :
         /\ Readable(images_dir[f])
         /\ images_dir' = [images_dir EXCEPT ![f] = "unreadable"]
    /\ op' = "corrupt"
    /\ NoCall
    /\ UNCHANGED <<sessionVars, input_intact, coords, places, writers, impl, now, landmarks_dir, images_mtime, cache_stats, lastPut,
                   everPut>>

\* cache_manager.clear_old_cache(max_age_hours); only OfflineCacheManager
\* has the method.
Sweep ==
    /\ impl = "OfflineCacheManager"
    /\ \E max_age_hours \in 0..MaxSweepAge :
       \E run \in SweepRuns(landmarks_dir, images_dir) :
       \E r \in {OfflineCacheManager_clear_old_cache(landmarks_dir, images_dir,
                    images_mtime, max_age_hours, now, run)} :
         /\ landmarks_dir' = r.dir
         /\ images_dir' = r.images
         /\ images_mtime' = r.mtimes
         /\ shown' = r.shown
         /\ raised' = r.raised
         /\ arg' = [q |-> "", max_age |-> max_age_hours, url |-> ""]
    /\ op' = "clear_old_cache"
    /\ fetched' = NoFetch
    /\ ret' = <<>>
    /\ net' = <<>>
    /\ UNCHANGED <<sessionVars, input_intact, coords, places, writers, impl, now, cache_stats, lastPut, everPut>>

\* get_landmarks(bounds, zoom_level) of main.py, cache_manager being this
\* instance
GetLandmarksWith(q, fetch) ==
    /\ \E zoom_level \in ZoomLevels, offline_mode \in BOOLEAN,
          wr \in WriteOutcomes :
       \E outcomes \in OutcomesFor(fetch.landmarks) :
       \E r \in {get_landmarks(impl, landmarks_dir, images_dir, q, zoom_level,
                    Language, offline_mode, fetch, outcomes, wr, now)} :
         /\ landmarks_dir' = r.dir
         /\ images_dir' = r.images
         /\ images_mtime' = Touch(images_mtime, images_dir, r.images, now)
         /\ ret' = r.ret
         /\ raised' = r.raised
         /\ net' = r.net
         /\ shown' = r.shown
         /\ input_intact' = (r.caller = fetch.landmarks)
         /\ arg' = [q |-> q, max_age |-> 0, url |-> ""]
         /\ fetched' = [called |-> r.called,
                        raises |-> r.called /\ fetch.raises,
                        landmarks |-> IF r.called THEN fetch.landmarks ELSE <<>>,
                        cache_called |-> r.cache_called,
                        offline_mode |-> offline_mode,
                        zoom_level |-> zoom_level]
         /\ lastPut' = IF r.put
                        THEN [q |-> q, landmarks |-> fetch.landmarks, time |-> now]
                        ELSE lastPut
         /\ everPut' = IF r.put THEN everPut \cup {q} ELSE everPut
    /\ op' = "get_landmarks"
    /\ UNCHANGED <<sessionVars, coords, places, writers, impl, now, cache_stats>>

GetLandmarks ==
    \E q \in Queries, fetch \in AdapterOutcomes : GetLandmarksWith(q, fetch)

\* get_landmarks(bounds, zoom_level) with the Google Places adapter of
\* utils/google_places.py behind it, for proper and degenerate bounds
GetLandmarksBounds ==
    \E bounds \in BoundsValues, test_mode \in BOOLEAN,
       test_landmarks \in BoundsFixtures, api \in BoundsApiOutcomes :
       GetLandmarksWith(bounds,
           GooglePlacesHandler_get_landmarks_bounds(test_mode, test_landmarks,
                                                    bounds, api))

\* The landmark lists of the concurrent puts: no photos, so that the image
\* loop runs without HTTP exchanges.
ConcBatches == {<<>>, <<CityPark>>, <<CityPark, Nowhere>>}

\* cache_landmarks in thread w, up to and including open(cache_path, 'w'):
\* the image loop has run, the file is truncated, nothing is written yet.
PutOpen(w) ==
    /\ writers[w].pc = "idle"
    /\ \E landmarks \in ConcBatches :
       \E outcomes \in OutcomesFor(landmarks) :
       \E loop \in {ProcessLandmarks(landmarks, outcomes, 1,
                       [cached_landmarks |-> <<>>, images |-> images_dir,
                        net |-> <<>>, caller |-> landmarks])} :
         /\ input_intact' = (loop.caller = landmarks)
         /\ images_dir' = loop.images
         /\ images_mtime' = Touch(images_mtime, images_dir, loop.images, now)
         /\ net' = loop.net
         /\ landmarks_dir' =
                [landmarks_dir EXCEPT ![CachePath(impl)] = FileOfBytes(<<>>, now)]
         /\ writers' =
                [v \in Writers |->
                    IF v = w
                    THEN [pc |-> "writing", batch |-> landmarks,
                          doc |-> Serialize([landmarks |-> loop.cached_landmarks,
                                             timestamp |-> now, query |-> "q1"]),
                          pos |-> 0,
                          raced |-> \E u \in Writers : writers[u].pc = "writing"]
                    ELSE IF writers[v].pc = "writing"
                         THEN [writers[v] EXCEPT !.raced = TRUE]
                         ELSE writers[v]]
    /\ op' = "open"
    /\ ret' = <<>>
    /\ raised' = FALSE
    /\ arg' = NoArg
    /\ shown' = NoMessage
    /\ fetched' = NoFetch
    /\ UNCHANGED <<sessionVars, coords, places, impl, now, cache_stats, lastPut, everPut>>

\* json.dump in thread w hands the next piece of the text to the file
PutWrite(w) ==
    /\ writers[w].pc = "writing"
    /\ writers[w].pos < Len(writers[w].doc)
    /\ landmarks_dir' =
          [landmarks_dir EXCEPT ![CachePath(impl)] =
              FileOfBytes(WriteAt(BytesOf(landmarks_dir[CachePath(impl)]),
                                  writers[w].pos,
                                  writers[w].doc[writers[w].pos + 1]),
                          now)]
    /\ writers' = [writers EXCEPT ![w].pos = @ + 1]
    /\ op' = "write"
    /\ NoCall
    /\ UNCHANGED <<sessionVars, input_intact, coords, places, impl, now, images_dir, images_mtime, cache_stats, lastPut,
                   everPut>>

\* the with block closes the file and cache_landmarks in thread w returns
PutClose(w) ==
    /\ writers[w].pc = "writing"
    /\ writers[w].pos = Len(writers[w].doc)
    /\ writers' = [writers EXCEPT ![w].pc = "done"]
    /\ cache_stats' = IF impl = "OfflineCacheManager"
                      THEN Stats(landmarks_dir, images_dir, now)
                      ELSE cache_stats
    /\ lastPut' = [q |-> "q1", landmarks |-> writers[w].batch, time |-> now]
    /\ everPut' = everPut \cup {"q1"}
    /\ op' = "cache_landmarks"
    /\ NoCall
    /\ UNCHANGED <<sessionVars, input_intact, coords, places, impl, now, landmarks_dir, images_dir, images_mtime>>

\* parse_coordinates(f"{lat}, {lon}") and validate_coords(lat, lon), as the
\* coordinate test of tests/test_runner.py calls them
ParsePair ==
    /\ \E lat \in LatValues, lon \in LonValues :
         coords' = [kind |-> "pair", lat |-> lat, lon |-> lon,
                    coord_str |-> FormatPair(lat, lon),
                    parsed |-> parse_coordinates(FormatPair(lat, lon)),
                    valid |-> validate_coords(lat, lon)]
    /\ UNCHANGED <<storeVars, sessionVars, places>>

\* parse_coordinates of a string that is not the decimal string of a pair
ParseOther ==
    /\ \E coord_str \in OtherStrings :
         coords' = [kind |-> "other", lat |-> 0, lon |-> 0,
                    coord_str |-> coord_str,
                    parsed |-> parse_coordinates(coord_str),
                    valid |-> FALSE]
    /\ UNCHANGED <<storeVars, sessionVars, places>>

\* GooglePlacesHandler().get_landmarks(center_coords, radius_km) with
\* TEST_MODE set or not and config.json holding test_landmarks
PlacesGetLandmarks ==
    /\ \E test_mode \in BOOLEAN, test_landmarks \in TestFixtures,
          center_coords \in Centers, radius_km \in Radii,
          api \in AdapterOutcomes :
       \E r \in {GooglePlacesHandler_get_landmarks(test_mode, test_landmarks,
                    center_coords, radius_km, api)} :
         places' = [test_mode |-> test_mode, test_landmarks |-> test_landmarks,
                    center_coords |-> center_coords, radius_km |-> radius_km,
                    result |-> r.result, raised |-> r.raised,
                    client_called |-> r.client_called,
                    rate_limited |-> r.rate_limited]
    /\ UNCHANGED <<storeVars, sessionVars, coords>>

\* JourneyTracker().add_discovery(landmark_id, name).  Landmark ids are
\* opaque strings; the model names them by the order in which they are
\* first passed, so a call brings either an id seen before or the next one.
AddDiscovery ==
    /\ \E landmark_id \in 1..(Cardinality(journey.added) + 1) :
         /\ landmark_id <= MaxLandmarkIds
         /\ \E r \in {add_discovery(journey, landmark_id, now)} :
              journey' =
                [discovered_landmarks |-> r.discovered_landmarks,
                 achievements |-> r.achievements,
                 last_discovery_time |-> r.last_discovery_time,
                 added |-> journey.added \cup {landmark_id},
                 reported |->
                    [n \in DOMAIN journey.reported
                           \cup {r.result.new_achievements[k] :
                                   k \in 1..Len(r.result.new_achievements)} |->
                        (IF n \in DOMAIN journey.reported
                         THEN journey.reported[n] ELSE 0)
                        + Cardinality({k \in 1..Len(r.result.new_achievements) :
                                          r.result.new_achievements[k] = n})],
                 landmark_id |-> landmark_id,
                 result |-> r.result]
    /\ UNCHANGED <<storeVars, coords, places, weather, api_state>>

\* st.session_state.weather_handler.get_weather(lat, lon)
GetWeather ==
    /\ \E loc \in WeatherLocations, response \in WeatherResponses :
       \E r \in {get_weather(weather, loc[1], loc[2], response, weather.time)} :
         weather' = [time |-> weather.time,
                     weather_cache |-> r.weather_cache,
                     weather_cache_time |-> r.weather_cache_time,
                     called |-> TRUE, lat |-> loc[1], lon |-> loc[2],
                     ret |-> r.ret, http |-> r.http]
    /\ UNCHANGED <<storeVars, coords, places, journey, api_state>>

\* ten minutes pass on the weather clock
TickWeather ==
    /\ weather.time < MaxWeatherMinutes
    /\ weather' = [weather EXCEPT !.time = @ + 10, !.called = FALSE,
                                  !.lat = 0, !.lon = 0, !.ret = None,
                                  !.http = FALSE]
    /\ UNCHANGED <<storeVars, coords, places, journey, api_state>>

\* update_api_stats(api_name, status)
UpdateApiStats ==
    /\ Len(api_state.calls) < MaxApiCalls
    /\ \E c \in ApiCalls :
         /\ c.api_name # "Google Places"
              => Cardinality({i \in 1..Len(api_state.calls) :
                    api_state.calls[i].api_name # "Google Places"}) < MaxOtherCalls
         /\ \E r \in {update_api_stats(api_state, c.api_name, c.status, now)} :
              api_state' =
                [api_stats |-> r.api_stats, api_call_log |-> r.api_call_log,
                 calls |-> Append(api_state.calls,
                                  call_entry(c.api_name, c.status, now))]
    /\ UNCHANGED <<storeVars, coords, places, journey, weather>>

\* time passes, in the sweep specification
TickSweep ==
    /\ now < MaxSweepTime
    /\ now' = now + 1
    /\ op' = "tick"
    /\ NoCall
    /\ UNCHANGED <<sessionVars, input_intact, coords, places, writers, impl, landmarks_dir, images_dir, images_mtime, cache_stats,
                   lastPut, everPut>>

\* The landmark cache store: cache_landmarks, get_cached_landmarks, the clock
\* and damage to entry files.
Next ==
    \/ PutCacheManager
    \/ PutOffline
    \/ Get
    \/ Tick
    \/ CorruptEntry

Spec == Init /\ [][Next]_vars

\* The image store alone: direct _cache_image calls and damage to image files.
NextImage ==
    \/ CacheImage
    \/ CorruptImage

SpecImage == Init /\ [][NextImage]_vars

\* The sweep: files come into being through cache_landmarks and
\* _cache_image, age with the clock and are removed by clear_old_cache.
NextSweep ==
    \/ PutSweep
    \/ CacheImage
    \/ Get
    \/ TickSweep
    \/ Sweep

SpecSweep == Init /\ [][NextSweep]_vars

\* Every operation that touches the entry files: the cache store together
\* with the sweep.
NextFiles ==
    \/ PutCacheManager
    \/ PutOffline
    \/ Get
    \/ Tick
    \/ CorruptEntry
    \/ Sweep

SpecFiles == Init /\ [][NextFiles]_vars

\* The orchestrator: get_landmarks calls, direct reads of the cache between
\* them, and damage to entry files.
NextMain ==
    \/ GetLandmarks
    \/ Get
    \/ CorruptEntry

SpecMain == Init /\ [][NextMain]_vars

\* The orchestrator called with bounds tuples.
NextBounds == GetLandmarksBounds

SpecBounds == Init /\ [][NextBounds]_vars

\* The journey tracker: add_discovery calls with new and repeated ids.
NextJourney == AddDiscovery

SpecJourney == Init /\ [][NextJourney]_vars

\* The weather handler: get_weather calls and the clock.
NextWeather ==
    \/ GetWeather
    \/ TickWeather

SpecWeather == Init /\ [][NextWeather]_vars

\* The API call log of the debug panel.
NextApi == UpdateApiStats

SpecApi == Init /\ [][NextApi]_vars

\* Two threads that each run cache_landmarks once, step by step, and reads
\* of the cache at any point between the steps.
NextConc ==
    \/ \E w \in Writers : PutOpen(w)
    \/ \E w \in Writers : PutWrite(w)
    \/ \E w \in Writers : PutClose(w)
    \/ Get

SpecConc == Init /\ [][NextConc]_vars

\* The coordinate utilities: calls of parse_coordinates and validate_coords.
NextCoords ==
    \/ ParsePair
    \/ ParseOther

SpecCoords == Init /\ [][NextCoords]_vars

\* The Places adapter: get_landmarks calls in and out of test mode.
NextPlaces == PlacesGetLandmarks

SpecPlaces == Init /\ [][NextPlaces]_vars

\* ------------------------------------------------------------------ claims
\* The fields of a landmark other than its image reference.
SameData(a, b) ==
    /\ a.title = b.title
    /\ a.summary = b.summary
    /\ a.url = b.url
    /\ a.distance = b.distance
    /\ a.relevance = b.relevance
    /\ a.coordinates.lat = b.coordinates.lat
    /\ a.coordinates.lon = b.coordinates.lon

\* Same length, same order, same data record by record.
SameRecords(got, landmarks) ==
    /\ Len(got) = Len(landmarks)
    /\ \A i \in 1..Len(got) : SameData(got[i], landmarks[i])

\* What get_cached_landmarks(q) returns when the landmarks directory is dir.
LookupIn(dir, q) ==
    IF impl = "CacheManager"
    THEN CacheManager_get_cached_landmarks(dir, q, MaxAge).ret
    ELSE OfflineCacheManager_get_cached_landmarks(dir, q, MaxAge).ret

\* The record lists of the entries on disk.
StoredLandmarks ==
    { landmarks_dir[f].text.landmarks :
        f \in {g \in LandmarkFiles : landmarks_dir[g].kind = "json"} }

ValidLandmark(landmark) ==
    validate_coords(landmark.coordinates.lat, landmark.coordinates.lon)

\* C1: a get that directly follows a completed put for the same query
\* returns the records that were put: same length, same order, every field
\* other than the image reference equal.
C1_RoundTrip ==
    [][ ( /\ op = "cache_landmarks"
          /\ ~raised
          /\ op' = "get_cached_landmarks"
          /\ arg'.q = lastPut.q )
        => SameRecords(ret', lastPut.landmarks) ]_vars

\* C2: a get with max_age at a time later than (time of the put) + max_age
\* returns the empty sequence.
C2_Staleness ==
    ( /\ op = "get_cached_landmarks"
      /\ lastPut # NoPut
      /\ arg.q = lastPut.q
      /\ now > lastPut.time + arg.max_age )
    => ret = <<>>

\* C3: a get for a query that was never put returns the empty sequence and
\* does not raise, whatever was put for other queries.
C3_MissOnUnknownKey ==
    (op = "get_cached_landmarks" /\ arg.q \notin everPut)
    => (ret = <<>> /\ ~raised)

\* C4: a completed put for one query does not change what get returns for
\* another query that has an entry.
C4_Isolation ==
    [][ (op' = "cache_landmarks" /\ ~raised')
        => \A q \in everPut \ {lastPut'.q} :
              LookupIn(landmarks_dir', q) = LookupIn(landmarks_dir, q) ]_vars

\* C5: after a second completed put for a query, get for that query returns
\* exactly the records of the second put.
C5_TotalReplace ==
    [][ (op' = "cache_landmarks" /\ ~raised' /\ lastPut'.q \in everPut)
        => SameRecords(LookupIn(landmarks_dir', lastPut'.q), lastPut'.landmarks)
      ]_vars

\* C6: when an entry file on disk is unreadable, truncated, no valid JSON
\* or lacks the record list, get returns the empty sequence and does not
\* raise.
C6_CorruptIsMiss ==
    ( /\ op = "get_cached_landmarks"
      /\ \E f \in LandmarkFiles : landmarks_dir[f].kind \in CorruptKinds )
    => (ret = <<>> /\ ~raised)

C6_Witness ==
    /\ op = "get_cached_landmarks"
    /\ impl = "CacheManager"
    /\ landmarks_dir["landmarks.json"].kind = "no_landmarks_key"
    /\ "q1" \in everPut
    /\ arg.q = "q1"
    /\ ret = <<>>
    /\ ~raised

\* C7: a _cache_image(url) call made while the file a successful download
\* stored for url is in place and readable returns that file's path, issues
\* no HTTP request and leaves the images directory as it is; so a download
\* succeeds only in a call that found no readable file for its URL.
C7_NoDoubleDownload ==
    [][ op' = "_cache_image" =>
        /\ images_dir[ImagePath(arg'.url)] = "ok" =>
              /\ ret' = ImagePath(arg'.url)
              /\ net' = <<>>
              /\ images_dir' = images_dir
        /\ \A i \in 1..Len(net') :
              net'[i].outcome = "200" =>
                 ~Readable(images_dir[ImagePath(net'[i].url)]) ]_vars

C7_Witness ==
    /\ op = "_cache_image"
    /\ arg.url \in URLs
    /\ net = <<>>
    /\ ret = ImagePath(arg.url)
    /\ images_dir[ImagePath(arg.url)] = "ok"

\* C8: _cache_image never raises; when its HTTP exchange ends in a status
\* other than 200, a request exception or a file error, it returns "".
C8_SoftFailure ==
    op = "_cache_image" =>
        /\ ~raised
        /\ (net # <<>> /\ net[1].outcome # "200") => ret = ""

C8_Witness ==
    /\ op = "_cache_image"
    /\ net # <<>>
    /\ net[1].outcome = "WriteError"
    /\ ret = ""
    /\ ~raised

\* C9: every record of a stored entry has an image reference that is a
\* local path or empty, never a remote URL.
C9_NoDanglingRemoteUrl ==
    \A stored \in StoredLandmarks :
        \A i \in 1..Len(stored) :
            /\ stored[i].image_url \notin URLs
            /\ stored[i].image_url \in {NoImage} \cup ImageFiles

\* C10: after a completed put the stored entry holds the valid records of
\* the batch, in order, and none of the records with out-of-range
\* coordinates.
C10_InvalidRecordRejection ==
    (op = "cache_landmarks" /\ ~raised)
    => \A stored \in StoredLandmarks :
          SameRecords(stored, SelectSeq(lastPut.landmarks, ValidLandmark))

C12_CacheHitNoNetwork ==
    [][ (op' = "get_landmarks" /\ LookupIn(landmarks_dir, arg'.q) # <<>>) =>
          /\ ~fetched'.called
          /\ ret' = LookupIn(landmarks_dir, arg'.q) ]_vars

\* C13: when the adapter raises, get_landmarks raises to its caller; it does
\* not turn the failure into a normal return value.
C13_FetchErrorsPropagated ==
    (op = "get_landmarks" /\ fetched.raises) => raised

\* C14: when the adapter returns an empty list, get_landmarks returns the
\* empty list and leaves every cache entry and image file as it was, and an
\* identical call that follows calls the adapter again.
C14_EmptyFetchNotCached ==
    [][ /\ (op' = "get_landmarks" /\ fetched'.called /\ ~fetched'.raises
              /\ fetched'.landmarks = <<>>)
           => /\ ret' = <<>>
              /\ landmarks_dir' = landmarks_dir
              /\ images_dir' = images_dir
              /\ images_mtime' = images_mtime
        /\ (op = "get_landmarks" /\ fetched.called /\ ~fetched.raises
              /\ fetched.landmarks = <<>>
              /\ op' = "get_landmarks" /\ arg' = arg
              /\ fetched'.offline_mode = fetched.offline_mode
              /\ fetched'.zoom_level = fetched.zoom_level)
           => fetched'.called ]_vars

\* C14 witness: the adapter has returned an empty list while an entry was
\* on disk.
C14_Witness ==
    /\ op = "get_landmarks"
    /\ fetched.called
    /\ ~fetched.raises
    /\ fetched.landmarks = <<>>
    /\ ret = <<>>
    /\ ExistingLandmarkFiles(landmarks_dir) # {}

\* C15: when get_landmarks returns a non-empty adapter result,
\* cache_landmarks for that result has completed, and a
\* get_cached_landmarks for the same query that follows at once returns
\* those records.
C15_WriteBackBeforeReturn ==
    [][ (op = "get_landmarks" /\ fetched.called /\ ret # <<>>) =>
          /\ ret = fetched.landmarks
          /\ lastPut = [q |-> arg.q, landmarks |-> ret, time |-> now]
          /\ (op' = "get_cached_landmarks" /\ arg'.q = arg.q)
                => SameRecords(ret', ret) ]_vars

\* C15 witness: get_landmarks has returned a non-empty adapter result.
C15_Witness ==
    /\ op = "get_landmarks"
    /\ fetched.called
    /\ ret # <<>>
    /\ ret = fetched.landmarks

\* C16: a get that runs while one put for the same key is in progress
\* returns the complete previous batch (a miss if there was none) or the
\* complete new batch; it never returns part of a batch and never reports a
\* miss because the file is half written while a previous entry existed.
C16_NoPartialReads ==
    [][ LET inflight == {w \in Writers : writers[w].pc = "writing"}
        IN  ( /\ op' = "get_cached_landmarks"
              /\ Cardinality(inflight) = 1
              /\ \A w \in Writers : ~writers[w].raced )
            => \/ lastPut # NoPut /\ SameRecords(ret', lastPut.landmarks)
               \/ lastPut = NoPut /\ ret' = <<>>
               \/ \E w \in inflight : SameRecords(ret', writers[w].batch) ]_vars

\* C17: when two puts for the same key have run concurrently and both have
\* completed, the stored entry is well formed and is exactly the document
\* of one of the two, never a mixture and never an unparsable file.
C17_LastWriterWins ==
    ( /\ \A w \in Writers : writers[w].pc = "done"
      /\ \E w \in Writers : writers[w].raced )
    => /\ landmarks_dir[CachePath(impl)].kind = "json"
       /\ \E w \in Writers :
             BytesOf(landmarks_dir[CachePath(impl)]) = writers[w].doc

\* C18: for every pair (lat, lon), parse_coordinates of the decimal string
\* "lat, lon" returns Coordinates(lat, lon) exactly when -90 <= lat <= 90
\* and -180 <= lon <= 180, and None otherwise; validate_coords(lat, lon) is
\* true for exactly the same pairs.
C18_ParseAndValidate ==
    coords.kind = "pair" =>
        LET inRange == /\ -90 <= coords.lat /\ coords.lat <= 90
                       /\ -180 <= coords.lon /\ coords.lon <= 180
        IN  /\ inRange => coords.parsed = [some |-> TRUE, lat |-> coords.lat,
                                            lon |-> coords.lon]
            /\ ~inRange => coords.parsed = [some |-> FALSE]
            /\ coords.valid = inRange

\* C18 witness: a pair on the edge of the range, with a negative
\* coordinate, has been parsed from its decimal string.
C18_Witness ==
    /\ coords.kind = "pair"
    /\ coords.lat = -90
    /\ coords.lon = 180
    /\ coords.parsed.some
    /\ coords.valid

\* C19: in test mode GooglePlacesHandler.get_landmarks returns one record
\* for every configured test landmark, in order, for every center and
\* radius, without calling the Places API client and without rate limiting.
C19_TestModeAdapter ==
    places.test_mode =>
        /\ ~places.raised
        /\ Len(places.result) = Len(places.test_landmarks)
        /\ \A i \in 1..Len(places.result) :
              /\ places.result[i].title = places.test_landmarks[i].title
              /\ places.result[i].image_url = places.test_landmarks[i].image_url
              /\ places.result[i].coordinates.lat = places.test_landmarks[i].lat
              /\ places.result[i].coordinates.lon = places.test_landmarks[i].lon
        /\ ~places.client_called
        /\ ~places.rate_limited

\* C19 witness: a test-mode call with radius 0 around a center that is no
\* test landmark has returned both landmarks of the fixture.
C19_Witness ==
    /\ places.test_mode
    /\ places.radius_km = 0
    /\ places.center_coords = <<0, 0>>
    /\ Len(places.result) = 2

\* C20: get_cached_landmarks leaves every landmark entry file and every
\* image file unchanged, whatever it returns (hit, missing entry, corrupt
\* entry); an entry file disappears only in a clear_old_cache step.
C20_ReadsNeverModify ==
    [][ /\ op' = "get_cached_landmarks"
           => /\ landmarks_dir' = landmarks_dir
              /\ images_dir' = images_dir
              /\ images_mtime' = images_mtime
        /\ (\E f \in LandmarkFiles : /\ landmarks_dir[f].kind # "absent"
                                      /\ landmarks_dir'[f].kind = "absent")
           => op' = "clear_old_cache" ]_vars

\* C20 witness: a read has met a corrupt entry and returned a miss, the
\* entry still in place.
C20_Witness ==
    /\ op = "get_cached_landmarks"
    /\ impl = "CacheManager"
    /\ landmarks_dir["landmarks.json"].kind \in CorruptKinds
    /\ ret = <<>>

\* C21: a cache_landmarks call that fails leaves the entry that was stored
\* for its key before the call in place, complete, so that a following
\* get_cached_landmarks returns it.
C21_FailedPutKeepsEntry ==
    [][ ( /\ op' = "cache_landmarks"
          /\ raised'
          /\ landmarks_dir[CachePath(impl)].kind = "json" )
        => landmarks_dir'[CachePath(impl)] = landmarks_dir[CachePath(impl)] ]_vars

\* C22: in clear_old_cache, when handling one file fails, every other file
\* older than max_age_hours, in the landmarks and in the images directory,
\* is still removed by the same call: of the files that were old before
\* the call at most one is left after it.
C22_SweepDeletionsIndependent ==
    [][ op' = "clear_old_cache"
        => Cardinality(
             {f \in ExistingLandmarkFiles(landmarks_dir) :
                 /\ Expired(landmarks_dir[f].mtime, now, arg'.max_age)
                 /\ landmarks_dir'[f].kind # "absent"}
             \cup
             {f \in ExistingImageFiles(images_dir) :
                 /\ Expired(images_mtime[f], now, arg'.max_age)
                 /\ images_dir'[f] # "absent"}) <= 1 ]_vars

\* C23: when the image file for a URL exists but cannot be read,
\* _cache_image issues one HTTP GET for the URL and, when the exchange ends
\* with status 200 and the body written, the file is whole again and its
\* path is returned; when the file exists and can be read it is not
\* rewritten and no request is made.
C23_UnreadableRedownloaded ==
    [][ op' = "_cache_image" =>
        LET filename == ImagePath(arg'.url)
        IN  /\ images_dir[filename] = "unreadable" =>
                /\ Len(net') = 1
                /\ net'[1].url = arg'.url
                /\ net'[1].outcome = "200" =>
                      /\ images_dir'[filename] = "ok"
                      /\ images_mtime'[filename] = now
                      /\ ret' = filename
            /\ Readable(images_dir[filename]) =>
                /\ net' = <<>>
                /\ images_dir' = images_dir
                /\ images_mtime' = images_mtime
                /\ ret' = filename ]_vars

\* C23 witness: a call has found the file of its URL unreadable and has
\* issued the GET for it; the exchange ended in 404, so the unreadable file
\* is still there and "" was returned.
C23_Witness ==
    /\ op = "_cache_image"
    /\ arg.url \in URLs
    /\ images_dir[ImagePath(arg.url)] = "unreadable"
    /\ Len(net) = 1
    /\ net[1].url = arg.url
    /\ net[1].outcome = "404"
    /\ ret = ""

\* C24: a get_landmarks call whose bounds have south >= north or
\* west >= east ends in an error; the adapter is not called, nothing is
\* cached and no landmark list is returned.
C24_DegenerateBoundsRejected ==
    [][ (op' = "get_landmarks" /\ Degenerate(arg'.q))
        => /\ raised' \/ shown'.kind = "error"
           /\ ~fetched'.called
           /\ ~fetched'.cache_called
           /\ landmarks_dir' = landmarks_dir
           /\ images_dir' = images_dir
           /\ ret' = <<>> ]_vars

\* C25: while offline_mode is set, get_landmarks returns what
\* get_cached_landmarks returns for its arguments, calls no adapter, calls
\* no cache_landmarks, makes no HTTP request and leaves every cache file as
\* it was.
C25_OfflineTouchesNothing ==
    [][ (op' = "get_landmarks" /\ fetched'.offline_mode)
        => /\ ~fetched'.called
           /\ ~fetched'.cache_called
           /\ net' = <<>>
           /\ landmarks_dir' = landmarks_dir
           /\ images_dir' = images_dir
           /\ images_mtime' = images_mtime
           /\ lastPut' = lastPut
           /\ ret' = cache_manager_get_cached_landmarks(
                         impl, landmarks_dir, arg'.q, Language).ret ]_vars

\* C25 witness: an offline call has returned the records of a stored entry.
C25_Witness ==
    /\ op = "get_landmarks"
    /\ fetched.offline_mode
    /\ ~fetched.called
    /\ ret # <<>>
    /\ landmarks_dir[CachePath(impl)].kind = "json"

\* C26: after a cache_landmarks call that returned, the stored entry has
\* one record for every landmark of the batch, in order, also for the
\* landmarks whose image could not be cached.
C26_ImageFailureKeepsRecord ==
    (op = "cache_landmarks" /\ ~raised)
    => /\ landmarks_dir[CachePath(impl)].kind = "json"
       /\ LET stored == landmarks_dir[CachePath(impl)].text.landmarks
          IN  /\ Len(stored) = Len(lastPut.landmarks)
              /\ \A i \in 1..Len(stored) :
                    stored[i].title = lastPut.landmarks[i].title

\* C26 witness: a batch of two landmarks has been stored although the
\* download of the one image ended without a file.
C26_Witness ==
    /\ op = "cache_landmarks"
    /\ ~raised
    /\ Len(lastPut.landmarks) = 2
    /\ Len(net) = 1
    /\ net[1].outcome \in {"404", "RequestException", "OpenError", "WriteError"}
    /\ Len(landmarks_dir[CachePath(impl)].text.landmarks) = 2

\* C27: after a cache_landmarks call, returned or raised, the caller's list
\* holds the same dicts with the same items as before the call.
C27_InputNotModified ==
    op = "cache_landmarks" => input_intact

\* C27 witness: a call has stored a record whose image_url is the local
\* path of the downloaded image, while the caller's record keeps the URL.
C27_Witness ==
    /\ op = "cache_landmarks"
    /\ ~raised
    /\ input_intact
    /\ lastPut.landmarks = <<FerryBuilding>>
    /\ landmarks_dir[CachePath(impl)].kind = "json"
    /\ landmarks_dir[CachePath(impl)].text.landmarks[1].image_url
          = ImagePath(FerryBuilding.image_url)

\* C28: after any sequence of add_discovery calls the number of discovered
\* landmarks is the number of distinct ids added, an achievement is earned
\* only if that number has reached its requirement, and no achievement has
\* been returned in new_achievements by more than one call.
C28_AchievementsFollowCount ==
    /\ Cardinality(journey.discovered_landmarks) = Cardinality(journey.added)
    /\ \A k \in 1..Len(available_achievements) :
          available_achievements[k].name \in journey.achievements
          => Cardinality(journey.discovered_landmarks)
                >= available_achievements[k].requirement
    /\ \A n \in DOMAIN journey.reported : journey.reported[n] <= 1

\* C28 witness: two achievements are earned, each reported once, and the
\* last call brought an id that was discovered before.
C28_Witness ==
    /\ Cardinality(journey.achievements) = 2
    /\ DOMAIN journey.reported = journey.achievements
    /\ journey.result.some
    /\ ~journey.result.is_new
    /\ Cardinality(journey.discovered_landmarks) > 15

\* C29: when weather data was stored for a location less than 30 minutes
\* ago, a get_weather for a location with the same rounded coordinates
\* returns the stored data without an HTTP request; a get_weather whose
\* request fails returns None and leaves the stored data and their times
\* unchanged.
C29_WeatherCacheValidity ==
    [][ weather'.called =>
        /\ \A loc \in WeatherLocations :
              ( /\ FloatEq(round2(loc[1]), round2(weather'.lat))
                /\ FloatEq(round2(loc[2]), round2(weather'.lon))
                /\ cache_key(loc[1], loc[2]) \in DOMAIN weather.weather_cache_time
                /\ weather.time
                     - weather.weather_cache_time[cache_key(loc[1], loc[2])]
                   < CacheValidMinutes )
              => /\ ~weather'.http
                 /\ weather'.ret =
                      [some |-> TRUE,
                       value |-> weather.weather_cache[cache_key(loc[1], loc[2])]]
        /\ (weather'.http /\ ~weather'.ret.some)
              => /\ weather'.weather_cache = weather.weather_cache
                 /\ weather'.weather_cache_time = weather.weather_cache_time
      ]_vars

\* C30: after any sequence of update_api_stats calls, api_call_log holds at
\* most 50 entries, they are the entries of the most recent calls in call
\* order, and google_places_calls is the number of calls made with api_name
\* "Google Places".
C30_BoundedApiLog ==
    LET log == api_state.api_call_log
        calls == api_state.calls
    IN  /\ Len(log) <= LogLimit
        /\ Len(log) = IF Len(calls) < LogLimit THEN Len(calls) ELSE LogLimit
        /\ log = SubSeq(calls, Len(calls) - Len(log) + 1, Len(calls))
        /\ api_state.api_stats.google_places_calls =
              Cardinality({i \in 1..Len(calls) :
                              calls[i].api_name = "Google Places"})

\* C30 witness: more than 50 calls have been made, the first of them, for
\* another API, is no longer in the log, and the log is full.
C30_Witness ==
    /\ Len(api_state.calls) > LogLimit
    /\ api_state.calls[1].api_name = "Wikipedia"
    /\ Len(api_state.api_call_log) = LogLimit
    /\ api_state.api_call_log[1].api_name = "Google Places"
    /\ api_state.api_stats.google_places_calls = Len(api_state.calls) - 1

====
